---- MODULE Spec2Model ----
(***************************************************************************)
(* Model of src/main.rs of lambda-rust-sample: the Lambda handler `hello`  *)
(* validates an optional text body, resolves an S3 client from the process *)
(* environment and writes the text to the object "test.txt" of a bucket.   *)
(*                                                                         *)
(* A Rust String is modelled as the sequence of its code points; its       *)
(* length and its bytes are computed through the UTF-8 encoding.           *)
(***************************************************************************)
EXTENDS Integers, Sequences, FiniteSets, TLC

(* ---------------- bounds of the model ---------------- *)

\* Number of invocations of the handler the runtime makes (possibly overlapping).
NumInvocations == 2

\* Over-long ASCII inputs have MaxLen + 1 .. MaxLen + MaxOver characters.
MaxOver == 1

Invocations == 1..NumInvocations

(* ---------------- constants of the program ---------------- *)

MOCK_KEY == "AWS_MOCK_FLAG"
BUCKET_NAME_KEY == "BUCKET_NAME"
LOCAL_KEY == "LOCAL_FLAG"
MSG_EMPTY_TEXT_BODY == "Empty text body."
MSG_TEXT_BODY_TOO_LONG == "Text body is too long (max: 100)"

\* The literal of `text.len() > 100`.
MaxLen == 100

EnvKeys == {MOCK_KEY, BUCKET_NAME_KEY, LOCAL_KEY}

(* ---------------- Option<String> and String ---------------- *)

None == [some |-> FALSE, val |-> <<>>]
Some(t) == [some |-> TRUE, val |-> t]

\* n repetitions of the code point c.
Rep(c, n) == [k \in 1..n |-> c]

\* The UTF-8 encoding of one code point (a Rust String holds UTF-8).
Utf8(cp) ==
    IF cp < 128 THEN <<cp>>
    ELSE IF cp < 2048 THEN <<192 + (cp \div 64), 128 + (cp % 64)>>
    ELSE IF cp < 65536 THEN
        <<224 + (cp \div 4096), 128 + ((cp \div 64) % 64), 128 + (cp % 64)>>
    ELSE <<240 + (cp \div 262144), 128 + ((cp \div 4096) % 64),
           128 + ((cp \div 64) % 64), 128 + (cp % 64)>>

RECURSIVE Utf8All(_)
\* The UTF-8 bytes of a text, in order.
Utf8All(text) ==
    IF Len(text) = 0 THEN <<>>
    ELSE IF Len(text) = 1 THEN Utf8(text[1])
    ELSE LET h == Len(text) \div 2
         IN  Utf8All(SubSeq(text, 1, h))
                \o Utf8All(SubSeq(text, h + 1, Len(text)))

\* 'a' (1 byte), e-acute (2 bytes), hiragana a (3 bytes), an emoji (4 bytes).
Texts ==
    {Rep(97, 0), Rep(97, 9), Rep(97, MaxLen)}
        \cup {Rep(97, MaxLen + k) : k \in 1..MaxOver}
        \cup {Rep(233, MaxLen \div 2), Rep(233, (MaxLen \div 2) + 1)}
        \cup {Rep(12354, (MaxLen \div 3) + 1), Rep(128512, (MaxLen \div 4) + 1)}

\* The encodings of the texts, computed once.
Utf8Table == [t \in Texts |-> Utf8All(t)]

\* String::into_bytes: the UTF-8 bytes of the text, in order.
into_bytes(text) == Utf8Table[text]

\* A mutation: the length counted in characters (code points), not bytes.
StrLenChars(text) == Len(text)

\* String::len: the length of the text in bytes.
StrLen(text) == Len(into_bytes(text))

\* CustomEvent { text_body: Option<String> }
Events == {[text_body |-> None]} \cup {[text_body |-> Some(t)] : t \in Texts}

(* ---------------- the process environment ---------------- *)

Unset == [set |-> FALSE, unicode |-> FALSE, val |-> ""]
NotUnicode == [set |-> TRUE, unicode |-> FALSE, val |-> ""]
Val(s) == [set |-> TRUE, unicode |-> TRUE, val |-> s]

Envs ==
    {[k \in EnvKeys |->
        CASE k = MOCK_KEY -> m
          [] k = LOCAL_KEY -> l
          [] OTHER -> b] :
        m \in {Unset, Val(""), Val("1"), NotUnicode},
        l \in {Unset, Val(""), Val("local"), NotUnicode},
        b \in {Unset, Val("test-bucket"), NotUnicode}}

\* std::env::var: Err(NotPresent) when unset, Err(NotUnicode) when the value is
\* not valid Unicode, Ok(value) otherwise.
env_var(e, key) ==
    IF ~e[key].set THEN
        [ok |-> FALSE, val |-> "", err |-> "environment variable not found"]
    ELSE IF ~e[key].unicode THEN
        [ok |-> FALSE, val |-> "",
         err |-> "environment variable was not valid unicode"]
    ELSE [ok |-> TRUE, val |-> e[key].val, err |-> ""]

(* ---------------- results of an invocation ---------------- *)

NoResult == [tag |-> "None", src |-> "", msg |-> ""]
\* Ok(CustomOutput { message })
OkOutput(message) == [tag |-> "Ok", src |-> "CustomOutput", msg |-> message]
\* Err(e): src is the type of the underlying error, msg its string form.
ErrResult(src, msg) == [tag |-> "Err", src |-> src, msg |-> msg]
\* The invocation unwound with a panic.
PanicResult(msg) == [tag |-> "Panic", src |-> "panic", msg |-> msg]

\* A mutation: the code is not bracketed.
get_err_msg_Plain(code, msg) == ToString(code) \o " " \o msg

\* format!("[{}] {}", code, msg)
get_err_msg(code, msg) == "[" \o ToString(code) \o "] " \o msg

(* ---------------- the S3 clients ---------------- *)

NoClient == [backend |-> "none", region |-> "", endpoint |-> ""]
\* S3Client::new_with(MockRequestDispatcher::default().with_body(fixture), ..)
MockClient ==
    [backend |-> "mock", region |-> "us-east-1",
     endpoint |-> "mock_data/s3_test.json"]
\* S3Client::new(Region::Custom { name, endpoint })
LocalClient ==
    [backend |-> "http", region |-> "ap-northeast-1",
     endpoint |-> "http://host.docker.internal:8000"]
\* S3Client::new(Region::ApNortheast1)
CloudClient ==
    [backend |-> "http", region |-> "ap-northeast-1",
     endpoint |-> "https://s3.ap-northeast-1.amazonaws.com"]

Resolved(client, reads) == [panicked |-> FALSE, client |-> client, reads |-> reads]
ResolvePanic(reads) == [panicked |-> TRUE, client |-> NoClient, reads |-> reads]

\* A mutation: unwrap_or_default() in place of unwrap() on the local flag.
get_s3_client_Default(e) ==
    LET mock == env_var(e, MOCK_KEY)
        local == env_var(e, LOCAL_KEY)
    IN  IF mock.ok THEN Resolved(MockClient, <<MOCK_KEY>>)
        ELSE IF local.ok /\ local.val # "" THEN
            Resolved(LocalClient, <<MOCK_KEY, LOCAL_KEY>>)
        ELSE Resolved(CloudClient, <<MOCK_KEY, LOCAL_KEY>>)

\* get_s3_client: the client and the environment variables read, in order.
get_s3_client(e) ==
    LET mock == env_var(e, MOCK_KEY)
        local == env_var(e, LOCAL_KEY)
    IN  IF mock.ok THEN Resolved(MockClient, <<MOCK_KEY>>)
        ELSE IF ~local.ok THEN ResolvePanic(<<MOCK_KEY, LOCAL_KEY>>)
        ELSE IF local.val # "" THEN Resolved(LocalClient, <<MOCK_KEY, LOCAL_KEY>>)
        ELSE Resolved(CloudClient, <<MOCK_KEY, LOCAL_KEY>>)

(* ---------------- the upload request ---------------- *)

NoRequest == [bucket |-> "", key |-> "", body |-> <<>>, acl |-> ""]

\* A mutation: the body is left at its default (empty).
PutObjectRequest_NoBody(bucket_name, text) ==
    [bucket |-> bucket_name, key |-> "test.txt", body |-> <<>>,
     acl |-> "public-read"]

\* A mutation: one object per distinct text length.
PutObjectRequest_KeyPerText(bucket_name, text) ==
    [bucket |-> bucket_name, key |-> "test-" \o ToString(Len(text)) \o ".txt",
     body |-> into_bytes(text), acl |-> "public-read"]

\* PutObjectRequest { bucket, key, body, acl, ..Default::default() }
PutObjectRequest(bucket_name, text) ==
    [bucket |-> bucket_name, key |-> "test.txt", body |-> into_bytes(text),
     acl |-> "public-read"]

(* ---------------- the handler ---------------- *)

\* The entry of an invocation's trace for a read of the variable k.
EnvRead(k) == "env::var(" \o k \o ")"

\* Where one run of the handler's code stands when it stops or suspends.
Outcome(pc, result, trace, client, request) ==
    [pc |-> pc, result |-> result, trace |-> trace, client |-> client,
     request |-> request]

\* A mutation: `>=` in place of `>`.
TooLong_Ge(text) == StrLen(text) >= MaxLen

\* text.len() > 100
TooLong(text) == StrLen(text) > MaxLen

\* A mutation: the bucket name falls back to the empty string.
bucket_name_OrDefault(e) ==
    [ok |-> TRUE, val |-> env_var(e, BUCKET_NAME_KEY).val, err |-> ""]

\* env::var(BUCKET_NAME_KEY)
bucket_name_var(e) == env_var(e, BUCKET_NAME_KEY)

\* What the handler does once the text body has passed both checks, up to the
\* point where it awaits the answer to put_object.
hello_upload(text, e) ==
    LET s3 == get_s3_client(e)
        reads == [k \in 1..Len(s3.reads) |-> EnvRead(s3.reads[k])]
    IN  IF s3.panicked THEN
            Outcome("Panicked",
                    PanicResult("called Result::unwrap() on an Err value"),
                    reads, NoClient, NoRequest)
        ELSE
            LET bucket_name == bucket_name_var(e)
                t2 == reads \o <<"S3Client", EnvRead(BUCKET_NAME_KEY)>>
            IN  IF ~bucket_name.ok THEN
                    Outcome("Failed", ErrResult("VarError", bucket_name.err),
                            t2, s3.client, NoRequest)
                ELSE
                    Outcome("Awaiting", NoResult, t2 \o <<"put_object">>,
                            s3.client, PutObjectRequest(bucket_name.val, text))

\* A mutation: the client and the bucket are resolved before the text is checked.
hello_ResolveFirst(event, e) ==
    LET up == hello_upload(IF event.text_body.some THEN event.text_body.val ELSE <<>>, e)
    IN  IF up.pc # "Awaiting" THEN up
        ELSE IF ~event.text_body.some THEN
            Outcome("Failed",
                    ErrResult("anyhow", get_err_msg(400, MSG_EMPTY_TEXT_BODY)),
                    SubSeq(up.trace, 1, Len(up.trace) - 1) \o <<"error!">>,
                    up.client, NoRequest)
        ELSE IF TooLong(event.text_body.val) THEN
            Outcome("Failed",
                    ErrResult("anyhow", get_err_msg(400, MSG_TEXT_BODY_TOO_LONG)),
                    SubSeq(up.trace, 1, Len(up.trace) - 1) \o <<"error!">>,
                    up.client, NoRequest)
        ELSE up

\* hello, from its entry to its first suspension (the .await of put_object)
\* or to its return.
hello(event, e) ==
    IF ~event.text_body.some THEN
        Outcome("Failed",
                ErrResult("anyhow", get_err_msg(400, MSG_EMPTY_TEXT_BODY)),
                <<"error!">>, NoClient, NoRequest)
    ELSE
        LET text == event.text_body.val
        IN  IF TooLong(text) THEN
                Outcome("Failed",
                        ErrResult("anyhow",
                                  get_err_msg(400, MSG_TEXT_BODY_TOO_LONG)),
                        <<"error!">>, NoClient, NoRequest)
            ELSE hello_upload(text, e)

\* Answers of the storage service to put_object.
OkResponse == [ok |-> TRUE, src |-> "PutObjectOutput", msg |-> ""]
UploadErrors ==
    {[ok |-> FALSE, src |-> "RusotoError::HttpDispatch",
      msg |-> "error trying to connect: connection refused"],
     [ok |-> FALSE, src |-> "RusotoError::Unknown", msg |-> "AccessDenied"]}
NoResponse == [ok |-> FALSE, src |-> "", msg |-> ""]

\* A mutation: a failed upload is sent again.
hello_resume_Retry(response, cl, req) ==
    IF response.ok THEN
        Outcome("Responded", OkOutput("Succeeded."), <<>>, cl, req)
    ELSE Outcome("Awaiting", NoResult, <<"put_object">>, cl, req)

\* hello, from the answer to put_object to its return: `.await?` then Ok(..).
hello_resume(response, cl, req) ==
    IF response.ok THEN
        Outcome("Responded", OkOutput("Succeeded."), <<>>, cl, req)
    ELSE Outcome("Failed", ErrResult(response.src, response.msg), <<>>, cl, req)

(* ---------------- the storage service ---------------- *)

\* The bucket's objects after a put: the object of the same key is replaced.
S3Put(objects, endpoint, req) ==
    {o \in objects :
        ~(o.endpoint = endpoint /\ o.bucket = req.bucket /\ o.key = req.key)}
    \cup {[endpoint |-> endpoint, bucket |-> req.bucket, key |-> req.key,
           body |-> req.body, acl |-> req.acl]}

NoPut == [done |-> FALSE, by |-> 0, text |-> <<>>]

(* ---------------- state ---------------- *)

VARIABLES
    env,        \* the process environment (fixed for the life of the process)
    pc,         \* per invocation: Idle, Awaiting, Responded, Failed, Panicked
    event,      \* per invocation: the CustomEvent it was given
    result,     \* per invocation: what hello returned
    trace,      \* per invocation: the effects of the handler, in order
    client,     \* per invocation: the S3 client it resolved
    request,    \* per invocation: the PutObjectRequest it sent
    response,   \* per invocation: the service's answer to it
    sent,       \* per invocation: the number of put_object calls made
    store,      \* the objects held by the storage service
    lastPut     \* the upload the service completed last

vars ==
    <<env, pc, event, result, trace, client, request, response, sent, store,
      lastPut>>

Init ==
    /\ env \in Envs
    /\ pc = [i \in Invocations |-> "Idle"]
    /\ event = [i \in Invocations |-> [text_body |-> None]]
    /\ result = [i \in Invocations |-> NoResult]
    /\ trace = [i \in Invocations |-> <<>>]
    /\ client = [i \in Invocations |-> NoClient]
    /\ request = [i \in Invocations |-> NoRequest]
    /\ response = [i \in Invocations |-> NoResponse]
    /\ sent = [i \in Invocations |-> 0]
    /\ store = {}
    /\ lastPut = NoPut

\* The runtime invokes hello with an event; the handler runs to its return or
\* to the await of put_object. Invocations are numbered in order of arrival.
Hello(i, ev) ==
    /\ pc[i] = "Idle"
    /\ \A j \in 1..(i - 1) : pc[j] # "Idle"
    /\ LET h == hello(ev, env)
       IN  /\ pc' = [pc EXCEPT ![i] = h.pc]
           /\ event' = [event EXCEPT ![i] = ev]
           /\ result' = [result EXCEPT ![i] = h.result]
           /\ trace' = [trace EXCEPT ![i] = h.trace]
           /\ client' = [client EXCEPT ![i] = h.client]
           /\ request' = [request EXCEPT ![i] = h.request]
           /\ sent' = [sent EXCEPT ![i] = IF h.pc = "Awaiting" THEN 1 ELSE 0]
    /\ UNCHANGED <<env, response, store, lastPut>>

\* The handler resumes with the answer `resp` to its put_object.
Resume(i, resp) ==
    LET h == hello_resume(resp, client[i], request[i])
    IN  /\ pc' = [pc EXCEPT ![i] = h.pc]
        /\ result' = [result EXCEPT ![i] = h.result]
        /\ trace' = [trace EXCEPT ![i] = @ \o h.trace]
        /\ response' = [response EXCEPT ![i] = resp]
        /\ sent' = [sent EXCEPT ![i] = IF h.pc = "Awaiting" THEN @ + 1 ELSE @]
        /\ UNCHANGED <<env, event, client, request>>

\* put_object succeeds: the mock dispatcher answers from its fixture without
\* any request leaving the process; the service stores the object.
PutObjectOk(i) ==
    /\ pc[i] = "Awaiting"
    /\ IF client[i].backend = "mock"
       THEN UNCHANGED <<store, lastPut>>
       ELSE /\ store' = S3Put(store, client[i].endpoint, request[i])
            /\ lastPut' = [done |-> TRUE, by |-> i, text |-> event[i].text_body.val]
    /\ Resume(i, OkResponse)

\* put_object fails with a transport or service error. The service has either
\* not stored the object, or (transport error) stored it and its answer was
\* lost.
PutObjectErr(i, err, stored) ==
    /\ pc[i] = "Awaiting"
    /\ client[i].backend = "http"
    /\ stored => err.src = "RusotoError::HttpDispatch"
    /\ IF stored
       THEN /\ store' = S3Put(store, client[i].endpoint, request[i])
            /\ lastPut' = [done |-> TRUE, by |-> i, text |-> event[i].text_body.val]
       ELSE UNCHANGED <<store, lastPut>>
    /\ Resume(i, err)

Next ==
    \/ \E i \in Invocations, ev \in Events : Hello(i, ev)
    \/ \E i \in Invocations : PutObjectOk(i)
    \/ \E i \in Invocations, err \in UploadErrors, stored \in BOOLEAN :
            PutObjectErr(i, err, stored)

Spec == Init /\ [][Next]_vars

(* ---------------- vocabulary of the properties ---------------- *)

Invoked(i) == pc[i] # "Idle"
Finished(i) == pc[i] \in {"Responded", "Failed", "Panicked"}
Present(i) == event[i].text_body.some
\* The length in UTF-8 bytes of the text body of invocation i: one byte per
\* code point, one more from U+0080, one more from U+0800, one more from
\* U+10000.
ByteLen(i) ==
    LET t == event[i].text_body.val
    IN  Len(t) + Cardinality({k \in 1..Len(t) : t[k] >= 128})
               + Cardinality({k \in 1..Len(t) : t[k] >= 2048})
               + Cardinality({k \in 1..Len(t) : t[k] >= 65536})
\* The text body of invocation i passes both checks.
Valid(i) == Present(i) /\ ByteLen(i) <= 100
\* The variable k is set to a value env::var can return.
Readable(k) == env[k].set /\ env[k].unicode
\* The message starts with a bracketed code.
HasCodePrefix(msg) == Len(msg) > 0 /\ SubSeq(msg, 1, 1) = "["
\* The number of entries x in the trace of invocation i.
Count(i, x) == Cardinality({k \in 1..Len(trace[i]) : trace[i][k] = x})
\* The position of the first entry x in the trace of invocation i (0: none).
Pos(i, x) ==
    IF Count(i, x) = 0 THEN 0
    ELSE CHOOSE k \in 1..Len(trace[i]) :
            /\ trace[i][k] = x
            /\ \A j \in 1..(k - 1) : trace[i][j] # x
IsEnvRead(x) == x \in {EnvRead(k) : k \in EnvKeys}

(* ---------------- C1 ---------------- *)

\* C1: every invocation whose request has no textBody fails with the error
\* "[400] Empty text body.", whatever the environment holds, and has read no
\* environment variable.
C1_EmptyBodyFails ==
    \A i \in Invocations :
        (Invoked(i) /\ ~Present(i)) =>
            /\ pc[i] = "Failed"
            /\ result[i].tag = "Err"
            /\ result[i].msg = "[400] Empty text body."
            /\ \A k \in 1..Len(trace[i]) : ~IsEnvRead(trace[i][k])

\* An invocation without textBody has failed in an environment where none of
\* the three variables is set.
C1_Witness ==
    \E i \in Invocations :
        /\ pc[i] = "Failed" /\ ~Present(i)
        /\ \A k \in EnvKeys : ~env[k].set

(* ---------------- C2 ---------------- *)

\* C2: every invocation whose textBody is longer than 100 UTF-8 bytes fails
\* with the error "[400] Text body is too long (max: 100)", whatever the
\* environment holds.
C2_TooLongFails ==
    \A i \in Invocations :
        (Invoked(i) /\ Present(i) /\ ByteLen(i) > 100) =>
            /\ pc[i] = "Failed"
            /\ result[i].tag = "Err"
            /\ result[i].msg = "[400] Text body is too long (max: 100)"

\* A text of at most 100 characters but more than 100 bytes was rejected, in
\* an environment where the upload path would have been open.
C2_Witness ==
    \E i \in Invocations :
        /\ pc[i] = "Failed" /\ Present(i)
        /\ Len(event[i].text_body.val) <= 100 /\ ByteLen(i) > 100
        /\ Readable(MOCK_KEY) /\ Readable(BUCKET_NAME_KEY)

(* ---------------- C3 ---------------- *)

\* C3 as stated: every finished invocation whose textBody is present and at
\* most 100 bytes long returned { message: "Succeeded." }.
C3_AlwaysSucceeds ==
    \A i \in Invocations :
        (Finished(i) /\ Valid(i)) => result[i] = OkOutput("Succeeded.")

\* C3 amended: a finished invocation whose textBody is present and at most 100
\* bytes long (exactly 100 included) returned { message: "Succeeded." } if and
\* only if the client was resolved (mock flag or local flag readable), the
\* bucket name was readable and the upload did not fail.
C3_SucceedsUnlessEnvOrUploadFails ==
    \A i \in Invocations :
        (Finished(i) /\ Valid(i)) =>
            (result[i] = OkOutput("Succeeded.")
                <=> /\ Readable(MOCK_KEY) \/ Readable(LOCAL_KEY)
                    /\ Readable(BUCKET_NAME_KEY)
                    /\ response[i] \notin UploadErrors)

\* A text of exactly 100 bytes was answered with "Succeeded.".
C3_Witness ==
    \E i \in Invocations :
        /\ pc[i] = "Responded" /\ Present(i) /\ ByteLen(i) = 100
        /\ result[i] = OkOutput("Succeeded.")

(* ---------------- C4 ---------------- *)

\* C4: an invocation that returned the success response made exactly one
\* put_object call, before returning, for the bucket named by BUCKET_NAME, the
\* key "test.txt", the bytes of its textBody and the ACL "public-read", and
\* that call was answered with success.
C4_SuccessMeansOneUpload ==
    \A i \in Invocations :
        result[i].tag = "Ok" =>
            /\ sent[i] = 1
            /\ Count(i, "put_object") = 1
            /\ response[i] = OkResponse
            /\ Readable(BUCKET_NAME_KEY)
            /\ request[i] =
                [bucket |-> env[BUCKET_NAME_KEY].val, key |-> "test.txt",
                 body |-> into_bytes(event[i].text_body.val),
                 acl |-> "public-read"]
            /\ client[i].backend = "http" =>
                \E o \in store : o.key = "test.txt" /\ o.acl = "public-read"

\* A multi-byte text was uploaded through a real client and acknowledged.
C4_Witness ==
    \E i \in Invocations :
        /\ result[i].tag = "Ok" /\ client[i] = LocalClient
        /\ Len(event[i].text_body.val) > 0
        /\ ByteLen(i) > Len(event[i].text_body.val)

(* ---------------- C5 ---------------- *)

\* C5 as stated: with the mock flag set to any value the mock client is
\* resolved; otherwise a non-empty local flag gives the local endpoint client
\* and an empty local flag the production client.
C5_AnyValueSelectsMock ==
    \A i \in Invocations :
        (Invoked(i) /\ Valid(i)) =>
            /\ env[MOCK_KEY].set => client[i] = MockClient
            /\ (~env[MOCK_KEY].set /\ Readable(LOCAL_KEY)
                    /\ env[LOCAL_KEY].val # "") =>
                    client[i] = LocalClient
            /\ (~env[MOCK_KEY].set /\ env[LOCAL_KEY] = Val("")) =>
                    client[i] = CloudClient

\* What get_s3_client does: with the mock flag set to any valid Unicode value (the empty
\* string included) the mock client is resolved whatever the local flag is;
\* otherwise (mock flag unset or not valid Unicode) a local flag set to a
\* non-empty valid Unicode value gives the client for
\* "http://host.docker.internal:8000" with region "ap-northeast-1", and a local
\* flag set to the empty string gives the production ap-northeast-1 client.
C5_ClientSelection ==
    \A i \in Invocations :
        (Invoked(i) /\ Valid(i)) =>
            /\ Readable(MOCK_KEY) =>
                /\ client[i].backend = "mock"
                /\ client[i].endpoint = "mock_data/s3_test.json"
            /\ (~Readable(MOCK_KEY) /\ Readable(LOCAL_KEY)
                    /\ env[LOCAL_KEY].val # "") =>
                    client[i] =
                        [backend |-> "http", region |-> "ap-northeast-1",
                         endpoint |-> "http://host.docker.internal:8000"]
            /\ (~Readable(MOCK_KEY) /\ env[LOCAL_KEY] = Val("")) =>
                    client[i] =
                        [backend |-> "http", region |-> "ap-northeast-1",
                         endpoint |-> "https://s3.ap-northeast-1.amazonaws.com"]

\* The mock client was resolved although the local flag is set and non-empty.
C5_Witness ==
    \E i \in Invocations :
        /\ Invoked(i) /\ Valid(i)
        /\ env[MOCK_KEY] = Val("") /\ env[LOCAL_KEY] = Val("local")
        /\ client[i] = MockClient

(* ---------------- C6 ---------------- *)

\* C6: with the mock flag absent and the local flag unset, an invocation with
\* a valid textBody panics in get_s3_client: it has no client, made no upload
\* and returned neither a success nor an error.
C6_UnsetLocalPanics ==
    \A i \in Invocations :
        (~env[MOCK_KEY].set /\ ~env[LOCAL_KEY].set /\ Invoked(i) /\ Valid(i)) =>
            /\ pc[i] = "Panicked"
            /\ result[i].tag = "Panic"
            /\ client[i] = NoClient
            /\ sent[i] = 0 /\ Count(i, "put_object") = 0
            /\ request[i] = NoRequest
            /\ store = {}

\* A valid request panicked although the bucket name is set.
C6_Witness ==
    \E i \in Invocations :
        /\ pc[i] = "Panicked" /\ Valid(i)
        /\ ~env[MOCK_KEY].set /\ ~env[LOCAL_KEY].set
        /\ Readable(BUCKET_NAME_KEY)

(* ---------------- C7 ---------------- *)

\* C7: with BUCKET_NAME unset, a valid textBody and a client resolved, the
\* invocation fails before any upload, with the environment error's own text
\* and no bracketed code.
C7_UnsetBucketFailsFast ==
    \A i \in Invocations :
        (~env[BUCKET_NAME_KEY].set
            /\ (Readable(MOCK_KEY) \/ Readable(LOCAL_KEY))
            /\ Invoked(i) /\ Valid(i)) =>
            /\ pc[i] = "Failed"
            /\ result[i] = ErrResult("VarError", "environment variable not found")
            /\ ~HasCodePrefix(result[i].msg)
            /\ sent[i] = 0 /\ Count(i, "put_object") = 0
            /\ request[i] = NoRequest
            /\ store = {}

\* A valid request failed on the missing bucket name after resolving the
\* production client.
C7_Witness ==
    \E i \in Invocations :
        /\ pc[i] = "Failed" /\ Valid(i) /\ ~env[BUCKET_NAME_KEY].set
        /\ client[i] = CloudClient

(* ---------------- C8 ---------------- *)

\* C8: an invocation whose put_object was answered with an error fails with
\* that error, unchanged and without a bracketed code, and never succeeds; no
\* invocation makes more than one put_object call.
C8_UploadErrorPropagates ==
    \A i \in Invocations :
        /\ sent[i] <= 1
        /\ Count(i, "put_object") <= 1
        /\ response[i] \in UploadErrors =>
            /\ pc[i] = "Failed"
            /\ result[i] = ErrResult(response[i].src, response[i].msg)
            /\ ~HasCodePrefix(result[i].msg)

\* An upload failed and the invocation ended with the transport error.
C8_Witness ==
    \E i \in Invocations :
        /\ response[i] \in UploadErrors /\ pc[i] = "Failed"
        /\ result[i].src = "RusotoError::HttpDispatch" /\ sent[i] = 1

(* ---------------- C9 ---------------- *)

\* C9: put_object is called only for a text body that passed both checks, the
\* client is resolved before BUCKET_NAME is read and both before put_object;
\* an invocation that fails validation resolves no client, reads no
\* environment variable and makes no upload, and every stored object is the
\* text of an invocation that passed validation and called put_object.
C9_StepsInOrder ==
    /\ \A i \in Invocations :
        /\ Count(i, "put_object") > 0 =>
            /\ Valid(i)
            /\ 0 < Pos(i, "S3Client")
            /\ Pos(i, "S3Client") < Pos(i, EnvRead(BUCKET_NAME_KEY))
            /\ Pos(i, EnvRead(BUCKET_NAME_KEY)) < Pos(i, "put_object")
        /\ Count(i, EnvRead(BUCKET_NAME_KEY)) > 0 =>
            /\ 0 < Pos(i, "S3Client")
            /\ Pos(i, "S3Client") < Pos(i, EnvRead(BUCKET_NAME_KEY))
        /\ pc[i] = "Responded" => response[i] = OkResponse
        /\ (Invoked(i) /\ ~Valid(i)) =>
            /\ pc[i] = "Failed"
            /\ client[i] = NoClient
            /\ \A k \in 1..Len(trace[i]) : ~IsEnvRead(trace[i][k])
            /\ sent[i] = 0 /\ Count(i, "put_object") = 0
            /\ request[i] = NoRequest
    /\ \A o \in store :
        \E i \in Invocations :
            Valid(i) /\ sent[i] = 1 /\ response[i] # NoResponse
                /\ o.body = into_bytes(event[i].text_body.val)

\* One invocation failed validation after another had stored its text, and
\* the stored object is still that of the other.
C9_Witness ==
    \E i, j \in Invocations :
        /\ pc[i] = "Failed" /\ Present(i) /\ ~Valid(i)
        /\ pc[j] = "Responded" /\ lastPut.by = j
        /\ \E o \in store : o.body = into_bytes(event[j].text_body.val)
        /\ Len(trace[j]) = 5

(* ---------------- C10 ---------------- *)

\* C10: the service holds at most one object written by the handler, under
\* the key "test.txt" of the configured bucket, and its body is the textBody
\* of the upload that the service completed last.
C10_LastWriteWins ==
    /\ Cardinality(store) <= 1
    /\ \A o \in store : o.key = "test.txt"
    /\ ~lastPut.done => store = {}
    /\ lastPut.done =>
        store = {[endpoint |-> client[lastPut.by].endpoint,
                  bucket |-> env[BUCKET_NAME_KEY].val, key |-> "test.txt",
                  body |-> into_bytes(lastPut.text), acl |-> "public-read"]}

\* Two invocations with different texts have both uploaded to the same bucket,
\* and the object holds the text of invocation 1, whose upload completed last.
C10_Witness ==
    /\ pc[1] = "Responded" /\ pc[2] = "Responded"
    /\ event[1] # event[2]
    /\ lastPut.by = 1
    /\ \E o \in store : o.body = into_bytes(event[1].text_body.val)

====
